---- MODULE Spec2Model ----
(***************************************************************************)
(* SHFB access-score dashboard (src/app.py).  The script is re-executed    *)
(* top to bottom on every widget interaction; one run is the sequence      *)
(* filter -> empty check -> county merge -> static map -> interactive map  *)
(* and popups -> clicked-tract details -> summary and rankings.            *)
(*                                                                         *)
(* Encodings.  Access scores are integers; the float specials NaN, +inf    *)
(* and -inf are the sentinels NaN, PosInf, NegInf.  Agency contributions   *)
(* are integers in units of 0.00001.  A missing cell of a string column is *)
(* the value NA.  Python values handled by the agency code are tagged      *)
(* records (field t); each tag has its own payload field.                  *)
(***************************************************************************)
EXTENDS Integers, Sequences, FiniteSets, TLC

VARIABLES
    pre_df,        \* load_scores(): the Score Table, a sequence of rows
    geo_map,       \* load_static_geo()[0]: rows (GEOID_x, County_x)
    tracts_gdf,    \* load_static_geo()[1]: rows (GEOID, geometry)
    urban_sel, rural_sel, week_sel, day_sel, hour_sel, after_hours,
    pc,            \* position of the current run in the script
    filtered_df,   \* the frame named filtered_df (Filtered, then Enriched View)
    title_suffix,
    warned,        \* st.warning("No data available ...") was shown in this run
    executed,      \* the sections of the script executed so far in this run
    plot_df,       \* the frame named plot_df (static map, then interactive map)
    vmin, vmax,
    popups,        \* popup texts built by the loop over plot_df
    map_output,    \* what st_folium returned: the clicked GEOID or None
    panel,         \* what the clicked-tract section displayed
    summary,
    largest, smallest,   \* index labels of the rows nlargest / nsmallest return
    top10, bottom10      \* the two tables displayed

vars == <<pre_df, geo_map, tracts_gdf, urban_sel, rural_sel, week_sel, day_sel,
          hour_sel, after_hours, pc, filtered_df, title_suffix, warned, executed,
          plot_df, vmin, vmax, popups, map_output, panel, summary, largest, smallest,
          top10, bottom10>>

-----------------------------------------------------------------------------
(* Bounds of the explored inputs *)

MaxRows == 2
MaxGeoRows == 2
MaxTracts == 2
MaxRankRows == 21

-----------------------------------------------------------------------------
(* Value encodings *)

NaN == 2000
PosInf == 1000
NegInf == -1000
NA == "<NA>"
None == "None"

IsFinite(x) == x \notin {NaN, PosInf, NegInf}

\* Python values
PyNone == [t |-> "none"]
PyNaN == [t |-> "nan"]
PyNum(n) == [t |-> "num", n |-> n]
PyStr(s) == [t |-> "str", s |-> s]
PyList(items) == [t |-> "list", items |-> items]
PyDict(keys, vals) == [t |-> "dict", keys |-> keys, vals |-> vals]

\* bool(v)
Truthy(v) ==
    CASE v.t = "none" -> FALSE
      [] v.t = "nan" -> TRUE
      [] v.t = "num" -> v.n # 0
      [] v.t = "str" -> v.s # ""
      [] v.t = "list" -> Len(v.items) > 0
      [] v.t = "dict" -> Len(v.keys) > 0

-----------------------------------------------------------------------------
(* json.loads on the texts a Top_Agencies cell can hold.  A text is lexed   *)
(* into JSON tokens (punctuation, null, string and number literals; any     *)
(* other character run is a bad token) and parsed by recursive descent.     *)

TxtOne == "[{\"Name\":\"A\",\"Agency_Contribution\":0.12345}]"
TxtTwo == "[{\"Name\":\"A\",\"Agency_Contribution\":0.75},{\"Name\":\"B\",\"Agency_Contribution\":0.125}]"
TxtEmptyList == "[]"
TxtEmpty == ""
TxtNotJson == "not json"
TxtObject == "{\"Name\":\"A\"}"
TxtNumber == "5"
TxtNull == "null"
TxtNoField == "[{\"Name\":\"A\"}]"
TxtTruncated == "[{\"Name\":\"A\""

Punct(k) == [k |-> k]
StrTok(s) == [k |-> "str", s |-> s]
NumTok(n) == [k |-> "num", n |-> n]

EntryToks(name, contribution) ==
    <<Punct("{"), StrTok("Name"), Punct(":"), StrTok(name), Punct(","),
      StrTok("Agency_Contribution"), Punct(":"), NumTok(contribution), Punct("}")>>

Lex(s) ==
    CASE s = TxtOne -> <<Punct("[")>> \o EntryToks("A", 12345) \o <<Punct("]")>>
      [] s = TxtTwo -> <<Punct("[")>> \o EntryToks("A", 75000) \o <<Punct(",")>>
                       \o EntryToks("B", 12500) \o <<Punct("]")>>
      [] s = TxtEmptyList -> <<Punct("["), Punct("]")>>
      [] s = TxtEmpty -> <<>>
      [] s = TxtObject -> <<Punct("{"), StrTok("Name"), Punct(":"), StrTok("A"), Punct("}")>>
      [] s = TxtNumber -> <<NumTok(500000)>>
      [] s = TxtNull -> <<Punct("null")>>
      [] s = TxtNoField -> <<Punct("["), Punct("{"), StrTok("Name"), Punct(":"),
                             StrTok("A"), Punct("}"), Punct("]")>>
      [] s = TxtTruncated -> <<Punct("["), Punct("{"), StrTok("Name"), Punct(":"),
                               StrTok("A")>>
      [] OTHER -> <<Punct("bad"), Punct("bad")>>

ParseFail == [ok |-> FALSE]
ParseOk(v, next) == [ok |-> TRUE, val |-> v, next |-> next]

\* dict[key] = val: a repeated key keeps its position and takes the new value
DictPut(keys, vals, key, val) ==
    IF \E j \in 1..Len(keys) : keys[j] = key
    THEN [keys |-> keys,
          vals |-> [j \in 1..Len(vals) |-> IF keys[j] = key THEN val ELSE vals[j]]]
    ELSE [keys |-> Append(keys, key), vals |-> Append(vals, val)]

RECURSIVE ParseValue(_, _), ParseElems(_, _, _), ParseMembers(_, _, _, _)
ParseValue(toks, i) ==
    IF i > Len(toks) THEN ParseFail
    ELSE LET k == toks[i].k IN
         CASE k = "null" -> ParseOk(PyNone, i + 1)
           [] k = "num" -> ParseOk(PyNum(toks[i].n), i + 1)
           [] k = "str" -> ParseOk(PyStr(toks[i].s), i + 1)
           [] k = "[" -> IF i + 1 <= Len(toks) /\ toks[i + 1].k = "]"
                         THEN ParseOk(PyList(<<>>), i + 2)
                         ELSE ParseElems(toks, i + 1, <<>>)
           [] k = "{" -> IF i + 1 <= Len(toks) /\ toks[i + 1].k = "}"
                         THEN ParseOk(PyDict(<<>>, <<>>), i + 2)
                         ELSE ParseMembers(toks, i + 1, <<>>, <<>>)
           [] OTHER -> ParseFail
ParseElems(toks, i, acc) ==
    LET r == ParseValue(toks, i) IN
    IF ~r.ok \/ r.next > Len(toks) THEN ParseFail
    ELSE IF toks[r.next].k = "," THEN ParseElems(toks, r.next + 1, Append(acc, r.val))
    ELSE IF toks[r.next].k = "]" THEN ParseOk(PyList(Append(acc, r.val)), r.next + 1)
    ELSE ParseFail
ParseMembers(toks, i, keys, vals) ==
    IF i + 1 > Len(toks) \/ toks[i].k # "str" \/ toks[i + 1].k # ":" THEN ParseFail
    ELSE LET r == ParseValue(toks, i + 2) IN
         IF ~r.ok \/ r.next > Len(toks) THEN ParseFail
         ELSE LET d == DictPut(keys, vals, toks[i].s, r.val) IN
              IF toks[r.next].k = "," THEN ParseMembers(toks, r.next + 1, d.keys, d.vals)
              ELSE IF toks[r.next].k = "}" THEN ParseOk(PyDict(d.keys, d.vals), r.next + 1)
              ELSE ParseFail

\* json.loads(s): the decoded value, or a raised JSONDecodeError (ok = FALSE)
json_loads(s) ==
    LET toks == Lex(s)
        r == ParseValue(toks, 1)
    IN IF r.ok /\ r.next = Len(toks) + 1 THEN [ok |-> TRUE, val |-> r.val] ELSE ParseFail

HasKey(d, key) == \E j \in 1..Len(d.keys) : d.keys[j] = key
GetKey(d, key) == d.vals[CHOOSE j \in 1..Len(d.keys) : d.keys[j] = key]

-----------------------------------------------------------------------------
(* Frames are sequences of rows (records named after the columns).         *)

Range(f) == {f[i] : i \in DOMAIN f}

\* df[mask]: the rows whose mask entry is true, in order
BoolIndex(df, mask) ==
    LET F[i \in 0..Len(df)] ==
            IF i = 0 THEN <<>>
            ELSE IF mask[i] THEN Append(F[i - 1], df[i]) ELSE F[i - 1]
    IN F[Len(df)]

\* left.merge(right, on="GEOID", how="left"): every left row, paired once with
\* each right row of its GEOID (in the right frame's order), or once unmatched
LeftMerge(left, right) ==
    LET Hits(l) == SelectSeq(right, LAMBDA r : r.GEOID = l.GEOID)
        Rows(l) == IF Hits(l) = <<>> THEN <<[matched |-> FALSE, left |-> l]>>
                   ELSE [j \in 1..Len(Hits(l)) |->
                            [matched |-> TRUE, left |-> l, right |-> Hits(l)[j]]]
        F[i \in 0..Len(left)] == IF i = 0 THEN <<>> ELSE F[i - 1] \o Rows(left[i])
    IN F[Len(left)]

\* sorted(df[col].unique()): the options of a sidebar selectbox; an empty
\* option list selects None
Options(values) == IF values = {} THEN {None} ELSE values

HourLo == 0
HourHi == 23
SliderDefault == 10
AfterHoursFrom == 17
TopN == 10
\* the slider positions explored (a subset of HourLo..HourHi)
HourChoices == {SliderDefault, AfterHoursFrom - 1, AfterHoursFrom, AfterHoursFrom + 1}

-----------------------------------------------------------------------------
(* Lines 55-72: the filter *)

IndexedRow(df, i) ==
    [index |-> i - 1, GEOID |-> df[i].GEOID,
     urban_threshold |-> df[i].urban_threshold, rural_threshold |-> df[i].rural_threshold,
     week |-> df[i].week, day |-> df[i].day, hour |-> df[i].hour,
     Access_Score |-> df[i].Access_Score, Top_Agencies |-> df[i].Top_Agencies]

WithIndex(df) == [i \in 1..Len(df) |-> IndexedRow(df, i)]

HourMask_strict(df, hsel, after) ==
    IF after THEN [i \in 1..Len(df) |-> df[i].hour > AfterHoursFrom]
    ELSE [i \in 1..Len(df) |-> df[i].hour = hsel]

HourMask(df, hsel, after) ==
    IF after THEN [i \in 1..Len(df) |-> df[i].hour >= AfterHoursFrom]
    ELSE [i \in 1..Len(df) |-> df[i].hour = hsel]

KeyMask(df, usel, rsel, wsel, dsel) ==
    [i \in 1..Len(df) |-> /\ df[i].urban_threshold = usel
                          /\ df[i].rural_threshold = rsel
                          /\ df[i].week = wsel
                          /\ df[i].day = dsel]

FilterRows(df, usel, rsel, wsel, dsel, hsel, after) ==
    LET km == KeyMask(df, usel, rsel, wsel, dsel)
        hm == HourMask(df, hsel, after)
    IN BoolIndex(WithIndex(df), [i \in 1..Len(df) |-> km[i] /\ hm[i]])

TitleSuffix(wsel, dsel, hsel, after) ==
    IF after THEN <<"After Hours (>=5PM), Week", wsel, dsel>>
    ELSE <<"Week", wsel, dsel, hsel, ":00">>

IsEmpty_never(df) == FALSE

\* filtered_df.empty
IsEmpty(df) == Len(df) = 0

-----------------------------------------------------------------------------
(* Lines 81-83: the county merge *)

RenameGEOID(row) ==
    IF "GEOID_x" \in DOMAIN row
    THEN [GEOID |-> row.GEOID_x, County_x |-> row.County_x]
    ELSE row

geo_map_rename_inplace(gm) ==
    [self |-> [i \in 1..Len(gm) |-> RenameGEOID(gm[i])],
     result |-> [i \in 1..Len(gm) |-> RenameGEOID(gm[i])]]

\* geo_map.rename(columns={"GEOID_x": "GEOID"}): a new frame is returned and
\* the receiver is left as it was
geo_map_rename(gm) ==
    [self |-> gm, result |-> [i \in 1..Len(gm) |-> RenameGEOID(gm[i])]]

EnrichedRow(l, county) ==
    [GEOID |-> l.GEOID,
     urban_threshold |-> l.urban_threshold, rural_threshold |-> l.rural_threshold,
     week |-> l.week, day |-> l.day, hour |-> l.hour,
     Access_Score |-> l.Access_Score, Top_Agencies |-> l.Top_Agencies,
     County |-> county]

CountyJoin(l, r) == EnrichedRow(l, r.County_x)
CountyMiss(l) == EnrichedRow(l, NA)

\* filtered_df.merge(geo_map_subset[["GEOID", "County_x"]], on="GEOID",
\* how="left") followed by the in-place rename of County_x to County
EnrichMerge(fdf, subset) ==
    LET m == LeftMerge(fdf, subset)
    IN [k \in 1..Len(m) |-> IF m[k].matched THEN CountyJoin(m[k].left, m[k].right)
                            ELSE CountyMiss(m[k].left)]

-----------------------------------------------------------------------------
(* Lines 88-99: the static map frame and its colour scale *)

FillScore(x) == IF x = NaN THEN 0 ELSE x
FillCounty(c) == IF c = NA THEN "Unknown" ELSE c

\* tracts_gdf[tracts_gdf["GEOID"].isin(geoids)]
RestrictTracts(tracts, fdf) ==
    LET geoids == {fdf[i].GEOID : i \in 1..Len(fdf)}
    IN SelectSeq(tracts, LAMBDA tr : tr.GEOID \in geoids)

StaticJoin(l, r) ==
    [GEOID |-> l.GEOID, geometry |-> l.geometry,
     Access_Score |-> FillScore(r.Access_Score), County |-> FillCounty(r.County)]
StaticMiss(l) ==
    [GEOID |-> l.GEOID, geometry |-> l.geometry,
     Access_Score |-> FillScore(NaN), County |-> FillCounty(NA)]

StaticPlotFrame(tracts, fdf) ==
    LET m == LeftMerge(RestrictTracts(tracts, fdf), fdf)
    IN [k \in 1..Len(m) |-> IF m[k].matched THEN StaticJoin(m[k].left, m[k].right)
                            ELSE StaticMiss(m[k].left)]

\* Series.max(): NaN cells are skipped; NaN when nothing is left
SeriesMax(xs) ==
    LET S == {xs[i] : i \in 1..Len(xs)} \ {NaN}
    IN IF S = {} THEN NaN ELSE CHOOSE m \in S : \A x \in S : x <= m

ColorScale_strict(df) ==
    LET lo == 0
        hi == SeriesMax([i \in 1..Len(df) |-> df[i].Access_Score])
    IN IF ~IsFinite(hi) \/ hi < lo THEN <<lo, lo + 1>> ELSE <<lo, hi>>

\* vmin, vmax = 0, float(max); if not np.isfinite(vmax) or vmax <= vmin: vmax = vmin + 1.0
ColorScale(df) ==
    LET lo == 0
        hi == SeriesMax([i \in 1..Len(df) |-> df[i].Access_Score])
    IN IF ~IsFinite(hi) \/ hi <= lo THEN <<lo, lo + 1>> ELSE <<lo, hi>>

-----------------------------------------------------------------------------
(* Lines 136-169: the interactive map frame and the popups *)

MapJoin(l, r) ==
    [GEOID |-> l.GEOID, geometry |-> l.geometry,
     Access_Score |-> FillScore(r.Access_Score), County |-> FillCounty(r.County),
     Top_Agencies |-> r.Top_Agencies]
MapMiss(l) ==
    [GEOID |-> l.GEOID, geometry |-> l.geometry,
     Access_Score |-> FillScore(NaN), County |-> FillCounty(NA),
     Top_Agencies |-> PyNaN]

MapPlotFrame(tracts, fdf) ==
    LET m == LeftMerge(tracts, fdf)
    IN [k \in 1..Len(m) |-> IF m[k].matched THEN MapJoin(m[k].left, m[k].right)
                            ELSE MapMiss(m[k].left)]

\* json.loads(x) if isinstance(x, str) else x
Decode(x) == IF x.t = "str" THEN json_loads(x.s) ELSE [ok |-> TRUE, val |-> x]

\* iter(v): the elements, or TypeError for a value that is not iterable
Iterate(v) ==
    CASE v.t = "list" -> [ok |-> TRUE, items |-> v.items]
      [] v.t = "dict" -> [ok |-> TRUE, items |-> [j \in 1..Len(v.keys) |-> PyStr(v.keys[j])]]
      [] v.t = "str" -> [ok |-> TRUE, items |-> <<PyStr(v.s)>>]
      [] OTHER -> [ok |-> FALSE]

\* round to a multiple of unit, halves to the even multiple
RoundTo(x, unit) ==
    LET q == x \div unit
        r == x % unit
    IN IF 2 * r < unit THEN q * unit
       ELSE IF 2 * r > unit THEN (q + 1) * unit
       ELSE IF q % 2 = 0 THEN q * unit ELSE (q + 1) * unit

\* f"<li>{ag['Name']} ({ag['Agency_Contribution']:.2f})</li>" evaluates
EntryFormats(ag) ==
    /\ ag.t = "dict"
    /\ HasKey(ag, "Name")
    /\ HasKey(ag, "Agency_Contribution")
    /\ GetKey(ag, "Agency_Contribution").t = "num"

PopupItem(ag) ==
    [Name |-> GetKey(ag, "Name"),
     Agency_Contribution |-> RoundTo(GetKey(ag, "Agency_Contribution").n, 1000)]

\* the <li> lines appended before the loop ends or an entry raises
PopupItems(items) ==
    LET F[i \in 0..Len(items)] ==
            IF i = 0 THEN [items |-> <<>>, raised |-> FALSE]
            ELSE IF F[i - 1].raised THEN F[i - 1]
            ELSE IF EntryFormats(items[i])
                 THEN [items |-> Append(F[i - 1].items, PopupItem(items[i])), raised |-> FALSE]
                 ELSE [items |-> F[i - 1].items, raised |-> TRUE]
    IN F[Len(items)]

\* one pass of the popup loop: popup_text as the parts appended to it
PopupText(row) ==
    LET Text(header, items, closed, nodata) ==
            [GEOID |-> row.GEOID, County |-> row.County, header |-> header,
             items |-> items, closed |-> closed, nodata |-> nodata]
        d == Decode(row.Top_Agencies)
    IN IF ~d.ok THEN Text(FALSE, <<>>, FALSE, TRUE)
       ELSE IF ~Truthy(d.val) THEN Text(FALSE, <<>>, FALSE, FALSE)
       ELSE IF ~Iterate(d.val).ok THEN Text(TRUE, <<>>, FALSE, TRUE)
       ELSE LET p == PopupItems(Iterate(d.val).items)
            IN IF p.raised THEN Text(TRUE, p.items, FALSE, TRUE)
               ELSE Text(TRUE, p.items, TRUE, FALSE)

Popups(df) == [i \in 1..Len(df) |-> PopupText(df[i])]

-----------------------------------------------------------------------------
(* Lines 179-206: the clicked-tract details *)

\* the try block of lines 186-197: the tract's payload decoded, or [] when
\* the lookup (IndexError on .values[0]) or the decode raises
ClickedAgencies(fdf, geoid) ==
    LET hits == SelectSeq(fdf, LAMBDA r : r.GEOID = geoid)
    IN IF hits = <<>> THEN PyList(<<>>)
       ELSE LET d == Decode(hits[1].Top_Agencies)
            IN IF d.ok THEN d.val ELSE PyList(<<>>)

\* pd.DataFrame(agencies) has an Agency_Contribution column
HasContributionColumn(items) ==
    /\ \A i \in 1..Len(items) : items[i].t = "dict"
    /\ \E i \in 1..Len(items) : HasKey(items[i], "Agency_Contribution")

\* the cell of a DataFrame(agencies) row in a column, NaN where the entry lacks it
Cell(ag, col) == IF HasKey(ag, col) THEN GetKey(ag, col) ELSE PyNaN

\* Series.round(3) evaluates: every cell is a number or missing
Roundable(items) ==
    \A i \in 1..Len(items) : Cell(items[i], "Agency_Contribution").t \in {"num", "nan"}

TableRow(ag) ==
    LET c == Cell(ag, "Agency_Contribution")
    IN [Name |-> Cell(ag, "Name"),
        Agency_Contribution |-> IF c.t = "num" THEN PyNum(RoundTo(c.n, 100)) ELSE PyNaN]

\* lines 199-206: what the panel shows for the decoded agencies
DetailPanel(agencies) ==
    IF Truthy(agencies) /\ agencies.t = "list"
    THEN IF ~HasContributionColumn(agencies.items)
         THEN [kind |-> "raised", exc |-> "KeyError"]
         ELSE IF ~Roundable(agencies.items)
         THEN [kind |-> "raised", exc |-> "TypeError"]
         ELSE [kind |-> "table",
               rows |-> [i \in 1..Len(agencies.items) |-> TableRow(agencies.items[i])]]
    ELSE [kind |-> "warning"]

NoPanel == [kind |-> "none"]

-----------------------------------------------------------------------------
(* Lines 211-220: summary statistics and the top / bottom tables *)

\* describe(): count, min and max of the non-missing scores (the moments and
\* quartiles of the report are not represented)
Describe(fdf) ==
    LET xs == [i \in 1..Len(fdf) |-> fdf[i].Access_Score]
        S == Range(xs) \ {NaN}
    IN [count |-> Cardinality({i \in 1..Len(xs) : xs[i] # NaN}),
        min |-> IF S = {} THEN NaN ELSE CHOOSE m \in S : \A x \in S : m <= x,
        max |-> SeriesMax(xs)]

\* row i is placed before row j: by score (largest or smallest first), rows
\* with a missing score after all others, equal scores in frame order
\* (keep="first")
Before(fdf, i, j, desc) ==
    LET a == fdf[i].Access_Score
        b == fdf[j].Access_Score
    IN IF a = NaN \/ b = NaN
       THEN (a # NaN /\ b = NaN) \/ (a = NaN /\ b = NaN /\ i < j)
       ELSE IF a = b THEN i < j
       ELSE IF desc THEN a > b ELSE a < b

\* the index labels (0-based, as reset by the merge) of the first n rows in
\* that order
SelectN(fdf, n, desc) ==
    LET Rank(i) == Cardinality({j \in 1..Len(fdf) : Before(fdf, j, i, desc)})
        m == IF n < Len(fdf) THEN n ELSE Len(fdf)
    IN [k \in 1..m |-> (CHOOSE i \in 1..Len(fdf) : Rank(i) = k - 1) - 1]

nlargest(fdf, n) == SelectN(fdf, n, TRUE)
nsmallest_desc(fdf, n) == SelectN(fdf, n, TRUE)
nsmallest(fdf, n) == SelectN(fdf, n, FALSE)

\* [["GEOID", "County", "Access_Score"]].reset_index(drop=True)
RankTable(fdf, picks) ==
    [k \in 1..Len(picks) |->
        [GEOID |-> fdf[picks[k] + 1].GEOID, County |-> fdf[picks[k] + 1].County,
         Access_Score |-> fdf[picks[k] + 1].Access_Score]]

-----------------------------------------------------------------------------
(* The loaded tables explored.  Each family varies one aspect of the data   *)
(* and keeps the others at a base value.                                    *)

Row(g, u, r, w, d, h, score, agencies) ==
    [GEOID |-> g, urban_threshold |-> u, rural_threshold |-> r, week |-> w,
     day |-> d, hour |-> h, Access_Score |-> score, Top_Agencies |-> agencies]

BaseRow(g, score, agencies) == Row(g, 15, 30, 1, "Mon", SliderDefault, score, agencies)

SeqsUpTo(S, n) == UNION {[1..k -> S] : k \in 0..n}

GeoRow(g, c) == [GEOID_x |-> g, County_x |-> c]
Tract(g) == [GEOID |-> g, geometry |-> <<"polygon", g>>]

\* tract identifiers, as many as the bounds can ask for
GEOIDS == [i \in 1..(MaxRows + MaxTracts) |-> ToString(37000 + i)]

BaseGeoMap == <<GeoRow(GEOIDS[1], "Wake"), GeoRow(GEOIDS[2], "Durham")>>
BaseTracts == <<Tract(GEOIDS[1]), Tract(GEOIDS[2])>>

\* rows that differ from the base row in one key column
KeyRowPool ==
    {BaseRow(GEOIDS[1], 2, PyStr(TxtOne)),
     Row(GEOIDS[1], 20, 30, 1, "Mon", SliderDefault, 2, PyStr(TxtOne)),
     Row(GEOIDS[1], 15, 45, 1, "Mon", SliderDefault, 2, PyStr(TxtOne)),
     Row(GEOIDS[1], 15, 30, 2, "Mon", SliderDefault, 2, PyStr(TxtOne)),
     Row(GEOIDS[1], 15, 30, 1, "Tue", SliderDefault, 2, PyStr(TxtOne)),
     Row(GEOIDS[1], 15, 30, 1, "Mon", AfterHoursFrom - 1, 2, PyStr(TxtOne)),
     Row(GEOIDS[1], 15, 30, 1, "Mon", AfterHoursFrom, 2, PyStr(TxtOne)),
     Row(GEOIDS[1], 15, 30, 1, "Mon", AfterHoursFrom + 1, 2, PyStr(TxtOne))}

ScoreChoices == {-1, 0, 2, NaN, PosInf, NegInf}
\* one row per tract, any score each
ScoreTables ==
    UNION {{[i \in 1..k |-> BaseRow(GEOIDS[i], f[i], PyStr(TxtOne))] :
                f \in [1..k -> ScoreChoices]} : k \in 0..MaxRows}

\* reference tables: county rows may be missing or repeated, a tract may have
\* no geometry
RefRowPool ==
    {Row(g, 15, 30, 1, "Mon", h, 2, PyStr(TxtOne)) :
        g \in {GEOIDS[1], GEOIDS[2]}, h \in {AfterHoursFrom, AfterHoursFrom + 1}}
GeoRowPool == {GeoRow(GEOIDS[1], "Wake"), GeoRow(GEOIDS[2], "Durham")}
TractChoices == {[i \in 1..k |-> Tract(GEOIDS[i])] : k \in 1..MaxTracts}

\* the payloads a Top_Agencies cell can hold
Entry(name, contribution) ==
    PyDict(<<"Name", "Agency_Contribution">>, <<PyStr(name), PyNum(contribution)>>)
Payloads ==
    <<PyStr(TxtOne), PyStr(TxtTwo), PyStr(TxtEmptyList), PyStr(TxtEmpty),
      PyStr(TxtNotJson), PyStr(TxtObject), PyStr(TxtNumber), PyStr(TxtNull),
      PyStr(TxtNoField), PyStr(TxtTruncated), PyNone,
      PyList(<<>>), PyList(<<Entry("A", 12345)>>),
      PyList(<<PyDict(<<"Name">>, <<PyStr("A")>>)>>)>>

PayloadTables ==
    UNION {{[i \in 1..k |-> BaseRow(GEOIDS[i], 2, Payloads[f[i]])] :
                f \in [1..k -> 1..Len(Payloads)]} : k \in 1..MaxRows}

\* tables of n rows for the rankings: distinct tracts, scores i * step mod m
\* (all equal, few values, all different), the rows after row c without a score
RankRow(i, step, m, c) ==
    BaseRow(ToString(i), IF i > c THEN NaN ELSE (i * step) % m, PyStr(TxtOne))
RankTables ==
    {[i \in 1..n |-> RankRow(i, st, m, c)] :
        n \in 0..MaxRankRows, st \in {1, 3}, m \in {1, 4, 29}, c \in {6, 12, 2 * MaxRankRows}}

\* the Score Table holds one record per (GEOID, thresholds, week, day, hour)
RecordKey(row) ==
    <<row.GEOID, row.urban_threshold, row.rural_threshold, row.week, row.day, row.hour>>
UniqueKeys(t) == \A i, j \in 1..Len(t) : RecordKey(t[i]) = RecordKey(t[j]) => i = j
KeyTables == {t \in SeqsUpTo(KeyRowPool, MaxRows) : UniqueKeys(t)}
RefTables == {t \in SeqsUpTo(RefRowPool, MaxRows) : UniqueKeys(t)}

Loaded ==
    {<<t, BaseGeoMap, BaseTracts>> : t \in KeyTables}
    \cup {<<t, BaseGeoMap, tr>> : t \in ScoreTables, tr \in TractChoices}
    \cup {<<t, gm, tr>> : t \in RefTables,
                          gm \in SeqsUpTo(GeoRowPool, MaxGeoRows), tr \in TractChoices}
    \cup {<<t, BaseGeoMap, [i \in 1..Len(t) |-> Tract(GEOIDS[i])]>> : t \in PayloadTables}
    \cup {<<t, BaseGeoMap, BaseTracts>> : t \in RankTables}

-----------------------------------------------------------------------------
(* Sidebar widgets (lines 41-46) *)

\* pre_df[col].unique()
UrbanValues(df) == {df[i].urban_threshold : i \in 1..Len(df)}
RuralValues(df) == {df[i].rural_threshold : i \in 1..Len(df)}
WeekValues(df) == {df[i].week : i \in 1..Len(df)}
DayValues(df) == {df[i].day : i \in 1..Len(df)}

\* a selectbox starts at the first option of the sorted list
DaySorted == <<"Mon", "Tue">>
FirstOf(S) == IF S = {} THEN None ELSE CHOOSE x \in S : \A y \in S : x <= y
FirstDay(S) ==
    IF S = {} THEN None
    ELSE DaySorted[CHOOSE i \in 1..Len(DaySorted) :
                       DaySorted[i] \in S /\ \A j \in 1..(i - 1) : DaySorted[j] \notin S]

\* the names of a run before the script assigns them
Unset ==
    /\ filtered_df = <<>>
    /\ title_suffix = <<>>
    /\ warned = FALSE
    /\ executed = {}
    /\ plot_df = <<>>
    /\ vmin = None
    /\ vmax = None
    /\ popups = <<>>
    /\ map_output = None
    /\ panel = NoPanel
    /\ summary = None
    /\ largest = <<>>
    /\ smallest = <<>>
    /\ top10 = <<>>
    /\ bottom10 = <<>>

Init ==
    /\ \E ld \in Loaded :
        /\ pre_df = ld[1]
        /\ geo_map = ld[2]
        /\ tracts_gdf = ld[3]
    /\ urban_sel = FirstOf(UrbanValues(pre_df))
    /\ rural_sel = FirstOf(RuralValues(pre_df))
    /\ week_sel = FirstOf(WeekValues(pre_df))
    /\ day_sel = FirstDay(DayValues(pre_df))
    /\ hour_sel = SliderDefault
    /\ after_hours = FALSE
    /\ pc = "start"
    /\ Unset

\* a new run starts with none of its names assigned
Reset ==
    /\ filtered_df' = <<>>
    /\ title_suffix' = <<>>
    /\ warned' = FALSE
    /\ executed' = {}
    /\ plot_df' = <<>>
    /\ vmin' = None
    /\ vmax' = None
    /\ popups' = <<>>
    /\ map_output' = None
    /\ panel' = NoPanel
    /\ summary' = None
    /\ largest' = <<>>
    /\ smallest' = <<>>
    /\ top10' = <<>>
    /\ bottom10' = <<>>

UNCHANGED_tables == UNCHANGED <<pre_df, tracts_gdf>>
UNCHANGED_widgets ==
    UNCHANGED <<urban_sel, rural_sel, week_sel, day_sel, hour_sel, after_hours>>

\* lines 55-72
Filter ==
    /\ pc = "start"
    /\ filtered_df' = FilterRows(pre_df, urban_sel, rural_sel, week_sel, day_sel,
                                 hour_sel, after_hours)
    /\ title_suffix' = TitleSuffix(week_sel, day_sel, hour_sel, after_hours)
    /\ executed' = executed \cup {"filter"}
    /\ pc' = "filtered"
    /\ UNCHANGED_tables /\ UNCHANGED_widgets
    /\ UNCHANGED <<geo_map, warned, plot_df, vmin, vmax, popups, map_output, panel,
                   summary, largest, smallest, top10, bottom10>>

\* lines 74-76: st.warning and st.stop()
EmptyStop ==
    /\ pc = "filtered"
    /\ IsEmpty(filtered_df)
    /\ warned' = TRUE
    /\ executed' = executed \cup {"warning"}
    /\ pc' = "stopped"
    /\ UNCHANGED_tables /\ UNCHANGED_widgets
    /\ UNCHANGED <<geo_map, filtered_df, title_suffix, plot_df, vmin, vmax, popups,
                   map_output, panel, summary, largest, smallest, top10, bottom10>>

\* lines 81-83
Merge ==
    /\ pc = "filtered"
    /\ ~IsEmpty(filtered_df)
    /\ LET rn == geo_map_rename(geo_map)
       IN /\ geo_map' = rn.self
          /\ filtered_df' = EnrichMerge(filtered_df, rn.result)
    /\ executed' = executed \cup {"merge"}
    /\ pc' = "merged"
    /\ UNCHANGED_tables /\ UNCHANGED_widgets
    /\ UNCHANGED <<title_suffix, warned, plot_df, vmin, vmax, popups, map_output,
                   panel, summary, largest, smallest, top10, bottom10>>

\* lines 88-118
StaticMap ==
    /\ pc = "merged"
    /\ plot_df' = StaticPlotFrame(tracts_gdf, filtered_df)
    /\ vmin' = ColorScale(plot_df')[1]
    /\ vmax' = ColorScale(plot_df')[2]
    /\ executed' = executed \cup {"static_map"}
    /\ pc' = "plotted"
    /\ UNCHANGED_tables /\ UNCHANGED_widgets
    /\ UNCHANGED <<geo_map, filtered_df, title_suffix, warned, popups, map_output,
                   panel, summary, largest, smallest, top10, bottom10>>

\* lines 127-172: st_folium returns the last clicked feature of the tract
\* layer, or nothing
InteractiveMap ==
    /\ pc = "plotted"
    /\ plot_df' = MapPlotFrame(tracts_gdf, filtered_df)
    /\ popups' = Popups(plot_df')
    /\ map_output' \in {None} \cup {tracts_gdf[i].GEOID : i \in 1..Len(tracts_gdf)}
    /\ executed' = executed \cup {"interactive_map"}
    /\ pc' = "mapped"
    /\ UNCHANGED_tables /\ UNCHANGED_widgets
    /\ UNCHANGED <<geo_map, filtered_df, title_suffix, warned, vmin, vmax, panel,
                   summary, largest, smallest, top10, bottom10>>

\* lines 179-206: an exception raised outside the try block ends the run
ClickedDetails ==
    /\ pc = "mapped"
    /\ panel' = IF map_output = None THEN NoPanel
                ELSE DetailPanel(ClickedAgencies(filtered_df, map_output))
    /\ executed' = executed \cup {"details"}
    /\ pc' = IF panel'.kind = "raised" THEN "crashed" ELSE "detailed"
    /\ UNCHANGED_tables /\ UNCHANGED_widgets
    /\ UNCHANGED <<geo_map, filtered_df, title_suffix, warned, plot_df, vmin, vmax,
                   popups, map_output, summary, largest, smallest, top10, bottom10>>

\* lines 211-220
Summary ==
    /\ pc = "detailed"
    /\ summary' = Describe(filtered_df)
    /\ largest' = nlargest(filtered_df, TopN)
    /\ smallest' = nsmallest(filtered_df, TopN)
    /\ top10' = RankTable(filtered_df, largest')
    /\ bottom10' = RankTable(filtered_df, smallest')
    /\ executed' = executed \cup {"summary"}
    /\ pc' = "done"
    /\ UNCHANGED_tables /\ UNCHANGED_widgets
    /\ UNCHANGED <<geo_map, filtered_df, title_suffix, warned, plot_df, vmin, vmax,
                   popups, map_output, panel>>

\* a widget interaction: the script runs again from the top with the new
\* widget values; the cached tables are the same objects
Rerun ==
    /\ pc \in {"stopped", "crashed", "done"}
    /\ urban_sel' \in Options(UrbanValues(pre_df))
    /\ rural_sel' \in Options(RuralValues(pre_df))
    /\ week_sel' \in Options(WeekValues(pre_df))
    /\ day_sel' \in Options(DayValues(pre_df))
    /\ hour_sel' \in HourChoices \cap HourLo..HourHi
    /\ after_hours' \in BOOLEAN
    /\ pc' = "start"
    /\ Reset
    /\ UNCHANGED_tables /\ UNCHANGED geo_map

Next ==
    \/ Filter
    \/ EmptyStop
    \/ Merge
    \/ StaticMap
    \/ InteractiveMap
    \/ ClickedDetails
    \/ Summary
    \/ Rerun

Spec == Init /\ [][Next]_vars

-----------------------------------------------------------------------------
(* Properties *)

AfterFilter == pc \notin {"start"}
AfterMerge == pc \in {"merged", "plotted", "mapped", "detailed", "crashed", "done"}
AfterStaticMap == pc \in {"plotted", "mapped", "detailed", "crashed", "done"}
AfterInteractiveMap == pc \in {"mapped", "detailed", "crashed", "done"}
AfterDetails == pc \in {"detailed", "crashed", "done"}

\* a Score Table row matches the current selections
Selected(row) ==
    /\ row.urban_threshold = urban_sel
    /\ row.rural_threshold = rural_sel
    /\ row.week = week_sel
    /\ row.day = day_sel
    /\ IF after_hours THEN row.hour >= 17 ELSE row.hour = hour_sel

SameCells(f, row) ==
    /\ f.GEOID = row.GEOID
    /\ f.urban_threshold = row.urban_threshold
    /\ f.rural_threshold = row.rural_threshold
    /\ f.week = row.week
    /\ f.day = row.day
    /\ f.hour = row.hour
    /\ f.Access_Score = row.Access_Score
    /\ f.Top_Agencies = row.Top_Agencies

\* C1: the Filtered View holds exactly the Score Table rows that equal the
\* selected urban_threshold, rural_threshold, week and day and whose hour is
\* the selected hour (exact mode) or is >= 17 (after-hours mode), each once,
\* in table order and with its cells unchanged; in after-hours mode the
\* selected hour has no effect on the view.
C1_FilteredViewExact ==
    pc = "filtered" =>
        /\ \A i \in 1..Len(pre_df) :
              Selected(pre_df[i]) <=> \E k \in 1..Len(filtered_df) : filtered_df[k].index = i - 1
        /\ \A k \in 1..Len(filtered_df) :
              /\ filtered_df[k].index \in 0..(Len(pre_df) - 1)
              /\ SameCells(filtered_df[k], pre_df[filtered_df[k].index + 1])
        /\ \A k \in 1..(Len(filtered_df) - 1) : filtered_df[k].index < filtered_df[k + 1].index
        /\ after_hours =>
              \A h \in HourLo..HourHi :
                  FilterRows(pre_df, urban_sel, rural_sel, week_sel, day_sel, h, TRUE)
                      = filtered_df

\* C1 witness: an after-hours view that keeps some rows and drops others, with
\* the slider at an hour none of the kept rows has
C1_Witness ==
    /\ pc = "filtered"
    /\ after_hours
    /\ filtered_df # <<>>
    /\ Len(filtered_df) < Len(pre_df)
    /\ \A k \in 1..Len(filtered_df) : filtered_df[k].hour # hour_sel

\* C2: when no row matches the selections the view is empty, the warning is
\* shown and the run stops there: no merge, map, details, summary or ranking
\* section runs and none of their results exists in that run.
C2_EmptyViewHalts ==
    /\ (AfterFilter /\ \A i \in 1..Len(pre_df) : ~Selected(pre_df[i])) =>
          /\ filtered_df = <<>>
          /\ pc \in {"filtered", "stopped"}
    /\ warned =>
          /\ pc = "stopped"
          /\ filtered_df = <<>>
          /\ executed = {"filter", "warning"}
          /\ plot_df = <<>> /\ popups = <<>> /\ vmin = None /\ vmax = None
          /\ panel = NoPanel /\ summary = None
          /\ top10 = <<>> /\ bottom10 = <<>>
    /\ pc = "stopped" => warned

\* C2 witness: a run over a non-empty Score Table stopped by the warning
C2_Witness ==
    /\ pc = "stopped"
    /\ warned
    /\ pre_df # <<>>

RowsOf(df, g) == {i \in 1..Len(df) : df[i].GEOID = g}

\* C3 (as claimed): the Enriched View has as many rows as the Filtered View and
\* every row's GEOID appears in it exactly once.
C3_MergeKeepsCardinality ==
    AfterMerge =>
        /\ Len(filtered_df) = Cardinality({i \in 1..Len(pre_df) : Selected(pre_df[i])})
        /\ \A k \in 1..Len(filtered_df) :
              Cardinality(RowsOf(filtered_df, filtered_df[k].GEOID)) = 1

\* C4 (as claimed): in the static map frame and in the interactive map frame
\* every tract of the geometry table appears exactly once; a tract with no
\* score row has score 0.0 and county "Unknown".
C4_MapViewsCoverAllTracts ==
    AfterStaticMap =>
        \A t \in 1..Len(tracts_gdf) :
            LET g == tracts_gdf[t].GEOID IN
            /\ Cardinality(RowsOf(plot_df, g)) = 1
            /\ (\A k \in 1..Len(filtered_df) : filtered_df[k].GEOID # g) =>
                  \A i \in 1..Len(plot_df) :
                      plot_df[i].GEOID = g =>
                          plot_df[i].Access_Score = 0 /\ plot_df[i].County = "Unknown"

PlotScores == {plot_df[i].Access_Score : i \in 1..Len(plot_df)}
IsMaxScore(m) == m \in PlotScores /\ \A x \in PlotScores : x <= m

\* C5: the lower bound of the colour scale is 0; when the static Map View has
\* no score, or its largest score is <= 0 or infinite, the upper bound is the
\* lower bound + 1.0; otherwise it is the largest score; the upper bound is
\* always above the lower bound.
C5_ColorScale ==
    /\ AfterStaticMap => vmin = 0 /\ vmax > vmin /\ IsFinite(vmax)
    /\ pc = "plotted" =>
          /\ NaN \notin PlotScores
          /\ (PlotScores = {} \/ \E m \in PlotScores :
                                    IsMaxScore(m) /\ (m <= 0 \/ m \in {PosInf, NegInf}))
                => vmax = vmin + 1
          /\ (\E m \in PlotScores : IsMaxScore(m) /\ m > 0 /\ m \notin {PosInf, NegInf})
                => IsMaxScore(vmax)

\* C5 witness: a drawn static map whose largest score is exactly the lower bound
C5_Witness ==
    /\ pc = "plotted"
    /\ IsMaxScore(0)
    /\ vmax = 1

\* the payload of a well-formed, non-empty agency list
WellFormedEntry(ag) ==
    /\ ag.t = "dict"
    /\ HasKey(ag, "Name")
    /\ HasKey(ag, "Agency_Contribution")
    /\ GetKey(ag, "Agency_Contribution").t = "num"
Decoded(x) == IF x.t = "str" THEN json_loads(x.s) ELSE [ok |-> TRUE, val |-> x]
WellFormed(x) ==
    /\ Decoded(x).ok
    /\ Decoded(x).val.t = "list"
    /\ Len(Decoded(x).val.items) > 0
    /\ \A i \in 1..Len(Decoded(x).val.items) : WellFormedEntry(Decoded(x).val.items[i])

ClickedRows == SelectSeq(filtered_df, LAMBDA r : r.GEOID = map_output)

\* C6 (as claimed): the clicked-tract section never raises; a well-formed
\* non-empty payload gives a table with one row per entry, and a malformed,
\* wrong-typed, missing-field or absent payload (or a tract with no row in the
\* view) gives the empty sequence, shown as the warning.
C6_BreakdownNeverRaises ==
    /\ pc # "crashed"
    /\ panel.kind # "raised"
    /\ (AfterDetails /\ map_output # None) =>
          IF ClickedRows # <<>> /\ WellFormed(ClickedRows[1].Top_Agencies)
          THEN /\ panel.kind = "table"
               /\ Len(panel.rows) = Len(Decoded(ClickedRows[1].Top_Agencies).val.items)
          ELSE panel.kind = "warning"

\* the size > 10 part of C7 as claimed: no common row unless the scores at the
\* cut (the 10th and the 11th row of a ranking) are equal
Shared == Range(largest) \cap Range(smallest)
ScoreAt(label) == filtered_df[label + 1].Access_Score
NthLargest(n) == ScoreAt(nlargest(filtered_df, n)[n])
NthSmallest(n) == ScoreAt(nsmallest(filtered_df, n)[n])
TieAtCut ==
    \/ NthLargest(TopN) = NthLargest(TopN + 1)
    \/ NthSmallest(TopN) = NthSmallest(TopN + 1)

Descending(tbl) ==
    \A k \in 1..(Len(tbl) - 1) :
        \/ tbl[k + 1].Access_Score = NaN
        \/ tbl[k].Access_Score # NaN /\ tbl[k].Access_Score >= tbl[k + 1].Access_Score
Ascending(tbl) ==
    \A k \in 1..(Len(tbl) - 1) :
        \/ tbl[k + 1].Access_Score = NaN
        \/ tbl[k].Access_Score # NaN /\ tbl[k].Access_Score <= tbl[k + 1].Access_Score

AllRows(labels) ==
    /\ Len(labels) = Len(filtered_df)
    /\ Range(labels) = 0..(Len(filtered_df) - 1)

IsProjection(tbl, labels) ==
    /\ Len(tbl) = Len(labels)
    /\ \A k \in 1..Len(tbl) :
          /\ tbl[k].GEOID = filtered_df[labels[k] + 1].GEOID
          /\ tbl[k].County = filtered_df[labels[k] + 1].County
          /\ tbl[k].Access_Score = filtered_df[labels[k] + 1].Access_Score

SmallViewTables ==
    Len(filtered_df) <= 10 =>
        /\ AllRows(largest) /\ AllRows(smallest)
        /\ Descending(top10) /\ Ascending(bottom10)

\* C7 (as claimed): up to 10 rows both tables hold all rows, the top table by
\* score descending and the bottom table ascending; above 10 rows both have 10
\* rows and share no row unless scores tie at the cut.
C7_TopBottomAsClaimed ==
    pc = "done" =>
        /\ IsProjection(top10, largest) /\ IsProjection(bottom10, smallest)
        /\ SmallViewTables
        /\ Len(filtered_df) > 10 =>
              /\ Len(top10) = 10 /\ Len(bottom10) = 10
              /\ Shared = {} \/ TieAtCut

NoMissingScore == \A k \in 1..Len(filtered_df) : filtered_df[k].Access_Score # NaN

\* C7 (amended): up to 10 rows both tables hold all rows, top descending and
\* bottom ascending; above 10 rows both have 10 distinct rows, each in its
\* order; from 20 rows on, when no score is missing, they share no row unless
\* the 10th largest score equals the 10th smallest; with 11 to 19 rows they
\* share at least 20 - size rows.
C7_TopBottom ==
    pc = "done" =>
        /\ IsProjection(top10, largest) /\ IsProjection(bottom10, smallest)
        /\ SmallViewTables
        /\ Len(filtered_df) > 10 =>
              /\ Len(top10) = 10 /\ Len(bottom10) = 10
              /\ Descending(top10) /\ Ascending(bottom10)
              /\ Cardinality(Range(largest)) = 10 /\ Cardinality(Range(smallest)) = 10
        /\ (Len(filtered_df) >= 20 /\ NoMissingScore) =>
              Shared = {} \/ top10[10].Access_Score = bottom10[10].Access_Score
        /\ Len(filtered_df) \in 11..19 => Cardinality(Shared) >= 20 - Len(filtered_df)

\* C7 witness: a view of at least 20 rows whose two tables have no common row
C7_Witness ==
    /\ pc = "done"
    /\ Len(filtered_df) >= 20
    /\ NoMissingScore
    /\ Len(top10) = 10 /\ Len(bottom10) = 10
    /\ Shared = {}

HasCounty(g) == \E j \in 1..Len(geo_map) : geo_map[j].GEOID_x = g

\* C8 (as claimed): an Enriched View row whose GEOID has no county mapping
\* carries the county "Unknown", and no row of the top / bottom tables shows a
\* missing county.
C8_UnmatchedCountyIsUnknown ==
    /\ AfterMerge =>
          \A k \in 1..Len(filtered_df) :
              ~HasCounty(filtered_df[k].GEOID) => filtered_df[k].County = "Unknown"
    /\ pc = "done" =>
          /\ \A k \in 1..Len(top10) : top10[k].County # NA
          /\ \A k \in 1..Len(bottom10) : bottom10[k].County # NA

\* the decoded agency contributions of a payload are the empty sequence: an
\* empty list, an absent payload, or a text that does not decode
NoContributions(x) ==
    \/ x.t \in {"none", "nan"}
    \/ ~Decoded(x).ok
    \/ Decoded(x).val.t = "none"
    \/ Decoded(x).val.t = "list" /\ Len(Decoded(x).val.items) = 0

\* C9 (as claimed): a tract whose decoded agency contributions are empty shows
\* the "no data" indicator in its popup and in the clicked-tract panel.
C9_EmptyAgenciesShowNoData ==
    /\ AfterInteractiveMap =>
          /\ Len(popups) = Len(plot_df)
          /\ \A i \in 1..Len(plot_df) :
                NoContributions(plot_df[i].Top_Agencies) => popups[i].nodata
    /\ (/\ AfterDetails
        /\ map_output # None
        /\ (ClickedRows = <<>> \/ NoContributions(ClickedRows[1].Top_Agencies)))
          => panel.kind = "warning"

\* what a completed run shows, as a function of the tables and the selections
RunFromTables ==
    LET view == FilterRows(pre_df, urban_sel, rural_sel, week_sel, day_sel,
                           hour_sel, after_hours)
        enriched == EnrichMerge(view, geo_map_rename(geo_map).result)
    IN /\ filtered_df = enriched
       /\ plot_df = MapPlotFrame(tracts_gdf, enriched)
       /\ <<vmin, vmax>> = ColorScale(StaticPlotFrame(tracts_gdf, enriched))
       /\ top10 = RankTable(enriched, nlargest(enriched, TopN))
       /\ bottom10 = RankTable(enriched, nsmallest(enriched, TopN))

\* C10: no step of any run changes the Score Table, the county mapping or the
\* tract geometries (rows and column names), and what a completed run shows
\* is determined by the tables and the current selections alone, whatever
\* runs came before.
C10_TablesUnchanged ==
    /\ [][/\ pre_df' = pre_df
          /\ geo_map' = geo_map
          /\ tracts_gdf' = tracts_gdf
          /\ \A j \in 1..Len(geo_map') : DOMAIN geo_map'[j] = {"GEOID_x", "County_x"}]_vars
    /\ [](pc = "done" => RunFromTables)

\* C10 witness: a later run (the checkbox was changed) that went through the
\* filter, the merge and both maps
C10_Witness ==
    /\ pc = "done"
    /\ after_hours
    /\ Len(filtered_df) > 0
    /\ Len(plot_df) > 0
    /\ geo_map # <<>>

====
